---------------------------- MODULE Spec2Model ----------------------------
(***************************************************************************)
(* OAuth2 authorization-code-with-PKCE coordinator of the OwnYou desktop   *)
(* applications (apps/consumer, apps/desktop, src/desktop-app).            *)
(*                                                                         *)
(* The Tauri commands start_oauth and complete_oauth run as independently  *)
(* scheduled tasks on a multi-threaded runtime.  They share AppState: one  *)
(* Mutex<Option<PkceCodeVerifier>> and one Mutex<Option<String>> per       *)
(* provider.  Every action below is one stretch of a command that ends    *)
(* where another task can next observe or change what the command does:    *)
(* before a mutex acquisition or at the await of the token request.  What  *)
(* a command computes on its own (building the OAuthClient, drawing random *)
(* values, comparing strings) belongs to the stretch that follows it or    *)
(* precedes it.  A command's result is one of Ok, ConfigurationError,      *)
(* CsrfMismatch, MissingSession, NetworkError, ProviderError, by the kind  *)
(* of its Err string.                                                      *)
(*                                                                         *)
(* Random values (PKCE verifier, CSRF token) are drawn from a CSPRNG; the  *)
(* model numbers them 1, 2, ... in the order they are generated, so two    *)
(* generated values are never equal.  The verifier and the CSRF token made *)
(* by the same get_authorization_url call carry the same number.           *)
(***************************************************************************)
EXTENDS Integers, Sequences, FiniteSets, TLC

(***************************************************************************)
(* Bounds of the model.                                                    *)
(***************************************************************************)
\* number of start_oauth / complete_oauth invocations in one behaviour
MaxCalls == 3
\* clock readings of the expiry check: whole minutes 0 .. MaxClockMinutes
MaxClockMinutes == 5
\* expiry offsets around the five-minute margin: margin-MaxSkew .. margin+MaxSkew
MaxSkew == 3
\* number of exchange_code / refresh_token / http_request calls in a behaviour
MaxTokenCalls == 2
\* requests one call may send before the model stops counting
MaxSends == 2
\* width in bits that stands for the 64 bits of i64 and u64 (TLC's own
\* integers have 32); the wrap and overflow rules are those of the 64-bit types
IntBits == 24
\* scopes a caller passes to start_oauth
MaxScopes == 2
\* start_oauth calls whose URL is built in a behaviour
MaxUrlCalls == 2
\* arguments of a second process after its program name
MaxArgs == 2

(***************************************************************************)
(* Values.                                                                 *)
(***************************************************************************)
\* Option::None of a verifier or CSRF slot, and of received_state
None == 0
\* a received_state the caller made up: no CsrfToken::new_random ever made it
Forged == -1

\* enum OAuthProvider, serde rename_all = "lowercase"
Providers == {"microsoft", "google"}

Calls == 1 .. MaxCalls

\* what the awaited token request can come back with
ExchangeOutcomes == {"Ok", "NetworkError", "ProviderError"}

VARIABLES
    pkce_verifier_slot, \* AppState.{microsoft,google}_pkce_verifier contents
    csrf_state,         \* AppState.{microsoft,google}_csrf_state contents
    verifier_lock,      \* holder of the verifier Mutex of a provider (0: free)
    csrf_lock,          \* holder of the CSRF Mutex of a provider (0: free)
    call,               \* the invocations: position, arguments, locals, result
    next_secret,        \* number of the next random verifier / CSRF token
    requests,           \* token-endpoint requests sent so far
    last_returned,      \* state in the URL most recently returned by start(P)
    chain,              \* starts of P since a complete(P) last changed P's slots
    ended,              \* outcome of the last complete(P) since the last start(P)
    token_expires_at,   \* TokenData.expires_at handed to check_token_expiration
    now_ms,             \* Utc::now().timestamp_millis() read by is_token_expired
    expiry_checked,     \* check_token_expiration has returned for this reading
    expired_result,     \* the bool it returned
    tok_app,            \* which application's oauth.rs runs
    tok_build,          \* build profile: decides what an overflowing i64 does
    tok_pc,             \* position of the current token-client call
    tok_op,             \* exchange_code, refresh_token or http_request
    tok_old_refresh,    \* the refresh_token argument of refresh_token
    tok_calls,          \* calls begun so far
    tok_sent,           \* requests the current call has sent
    tok_requests,       \* every request sent, with the HTTP client that sent it
    tok_response,       \* the provider's token response of the current call
    tok_now,            \* Utc::now().timestamp_millis() read when normalizing
    tok_result,         \* what the current call returned
    url_app,            \* which application's get_authorization_url runs
    url_provider,       \* provider of the current start_oauth call
    url_client_id,      \* its client_id argument
    url_scopes_arg,     \* its scopes argument
    url_pc,             \* its position
    url_calls,          \* start_oauth calls begun so far
    url_added,          \* scopes added to the authorization request so far
    url_verifier,       \* the PKCE verifier the call generated
    url_challenge,      \* the PKCE challenge generated with it
    url_csrf,           \* the CSRF token the call generated
    url_string,         \* the URL get_authorization_url returned
    url_stored_verifier,\* the verifier slot of each provider
    url_returned,       \* the URL start_oauth returned
    dl_app,             \* which application receives the deep link
    dl_pc,              \* position of the handler that receives it
    dl_argv,            \* argv of the second process
    dl_i,               \* index of the argument the loop looks at next
    dl_window,          \* whether a webview window labelled main exists
    dl_event_payload,   \* payload text of the deep-link://new-url event
    dl_log,             \* emits and window requests made, in order
    ser_token,          \* the TokenData value that is serialized
    ser_pc,             \* how far the round trip has come
    ser_json,           \* the JSON text serde_json::to_string produced
    ser_parsed          \* what serde_json::from_str made of it

session_vars == <<pkce_verifier_slot, csrf_state, verifier_lock, csrf_lock,
                  call, next_secret, requests, last_returned, chain, ended>>
expiry_vars == <<token_expires_at, now_ms, expiry_checked, expired_result>>
token_vars == <<tok_app, tok_build, tok_pc, tok_op, tok_old_refresh, tok_calls,
                tok_sent, tok_requests, tok_response, tok_now, tok_result>>
url_vars == <<url_app, url_provider, url_client_id, url_scopes_arg, url_pc,
              url_calls, url_added, url_verifier, url_challenge, url_csrf,
              url_string, url_stored_verifier, url_returned>>
deeplink_vars == <<dl_app, dl_pc, dl_argv, dl_i, dl_window, dl_event_payload,
                   dl_log>>
serde_vars == <<ser_token, ser_pc, ser_json, ser_parsed>>
vars == <<session_vars, expiry_vars, token_vars, url_vars, deeplink_vars,
          serde_vars>>
\* what a step of one part of the program leaves alone
non_session_vars == <<expiry_vars, token_vars, url_vars, deeplink_vars,
                   serde_vars>>
non_expiry_vars == <<session_vars, token_vars, url_vars, deeplink_vars,
                   serde_vars>>
non_token_vars == <<session_vars, expiry_vars, url_vars, deeplink_vars,
                   serde_vars>>
non_url_vars == <<session_vars, expiry_vars, token_vars, deeplink_vars,
                   serde_vars>>
non_serde_vars == <<session_vars, expiry_vars, token_vars, url_vars,
                    deeplink_vars>>
non_deeplink_vars == <<session_vars, expiry_vars, token_vars, url_vars,
                   serde_vars>>

(***************************************************************************)
(* Pure parts of the commands.                                             *)
(***************************************************************************)

\* the match on provider that selects the AppState field a command locks
SharedSlot(provider) == "microsoft"
SlotOf(provider) == provider

\* OAuthClient::new: RedirectUrl::new(redirect_uri)? is the one step that can
\* fail (the endpoint constants parse); TRUE when the client is built
ClientAlwaysBuilt(redirect_ok) == TRUE
ClientBuilt(redirect_ok) == redirect_ok

\* a MutexGuard dropped at the end of its block or by an early return: who
\* holds the Mutex after the command c has left the block
StillLocked(c) == c
Unlocked(c) == 0
\* complete_oauth takes each lock inside a match arm of its own, whose guard
\* is dropped where the arm ends: who holds the Mutex after that
GuardKept(c) == c
GuardDropped(c) == 0

\* *verifier_lock = Some(pkce_verifier): unconditional overwrite
KeepFirst(old, new) == IF old # None THEN old ELSE new
StoreSome(old, new) == new

\* lines 109-116: the nested if-let; TRUE when the command returns the
\* "CSRF state mismatch" error
StateCheckFailsStrict(received, expected) ==
    expected # None /\ received # expected
StateCheckFails(received, expected) ==
    /\ received # None
    /\ expected # None
    /\ received # expected

\* return Err("CSRF state mismatch - possible attack"): the command ends
\* there, so the token request it would have sent is not among the requests
FellThrough(reqs, request) == reqs \cup {request}
ReturnedErr(reqs, request) == reqs

\* the "Clear CSRF state" block is reached only past the `?` of the exchange
ClearsStateOnFailure(outcome) == TRUE
ClearsState(outcome) == outcome = "Ok"

\* verifier_lock.take(): what is left in the slot
TakeLeavesCopy(slot) == slot
TakeLeaves(slot) == None

\* .ok_or("No PKCE verifier found for ..."): TRUE when take() gave None
VerifierNeverMissing(slot) == FALSE
VerifierMissing(slot) == slot = None

\* is_token_expired: buffer = 5 * 60 * 1000; expires_at <= now + buffer
buffer == 5 * 60 * 1000
is_token_expired_exclusive(expires_at, now) == expires_at < now + buffer
is_token_expired(expires_at, now) == expires_at <= now + buffer

(***************************************************************************)
(* Initial state: AppState as run() manages it, no command invoked yet.    *)
(***************************************************************************)
IdleCall ==
    [pc |-> "idle", kind |-> "none", provider |-> "none", redirect_ok |-> TRUE,
     received_state |-> None, expected_state |-> None, pkce_verifier |-> None,
     csrf_token |-> None, result |-> "pending",
     \* history, written once when the command first reads AppState
     prior |-> "none", slot_at_entry |-> None, returned_at_entry |-> None,
     chain_at_entry |-> <<>>, overlap |-> FALSE]

SessionInit ==
    /\ pkce_verifier_slot = [p \in Providers |-> None]
    /\ csrf_state = [p \in Providers |-> None]
    /\ verifier_lock = [p \in Providers |-> 0]
    /\ csrf_lock = [p \in Providers |-> 0]
    /\ call = [c \in Calls |-> IdleCall]
    /\ next_secret = 1
    /\ requests = {}
    /\ last_returned = [p \in Providers |-> None]
    /\ chain = [p \in Providers |-> <<>>]
    /\ ended = [p \in Providers |-> "none"]

ExpiryIdle ==
    /\ token_expires_at = 0
    /\ now_ms = 0
    /\ expiry_checked = FALSE
    /\ expired_result = FALSE

NoResponse ==
    [refresh_token |-> None, has_expires_in |-> FALSE, expires_in |-> 0,
     token_type |-> "none"]
NoResult ==
    [status |-> "pending", refresh_token |-> None, expires_at |-> 0,
     token_type |-> "none"]

TokenIdle ==
    /\ tok_app = "consumer"
    /\ tok_build = "release"
    /\ tok_pc = "idle"
    /\ tok_op = "none"
    /\ tok_old_refresh = None
    /\ tok_calls = 0
    /\ tok_sent = 0
    /\ tok_requests = <<>>
    /\ tok_response = NoResponse
    /\ tok_now = 0
    /\ tok_result = NoResult

UrlIdle ==
    /\ url_app = "consumer"
    /\ url_provider = "none"
    /\ url_client_id = <<>>
    /\ url_scopes_arg = <<>>
    /\ url_pc = "idle"
    /\ url_calls = 0
    /\ url_added = <<>>
    /\ url_verifier = None
    /\ url_challenge = ""
    /\ url_csrf = None
    /\ url_string = <<>>
    /\ url_stored_verifier = [p \in Providers |-> None]
    /\ url_returned = <<>>

DeepLinkIdle ==
    /\ dl_app = "consumer"
    /\ dl_pc = "idle"
    /\ dl_argv = <<>>
    /\ dl_i = 0
    /\ dl_window = TRUE
    /\ dl_event_payload = <<>>
    /\ dl_log = <<>>

SerdeIdle ==
    /\ ser_token = [access_token |-> <<>>,
                    refresh_token |-> [some |-> FALSE, text |-> <<>>],
                    expires_at |-> 0, scope |-> <<>>, token_type |-> <<>>]
    /\ ser_pc = "idle"
    /\ ser_json = <<>>
    /\ ser_parsed = [ok |-> FALSE, value |-> ser_token]

Init ==
    /\ SessionInit
    /\ ExpiryIdle
    /\ TokenIdle
    /\ UrlIdle
    /\ DeepLinkIdle
    /\ SerdeIdle

(***************************************************************************)
(* Helpers of the actions.                                                 *)
(***************************************************************************)
\* invocations are numbered in the order they begin
NextToBegin(c) ==
    /\ call[c].pc = "idle"
    /\ \A d \in Calls : d < c => call[d].pc # "idle"

\* a start(P) that stores marks every complete(P) in flight as overlapped
MarkOverlap(calls, p) ==
    [d \in Calls |->
        IF calls[d].pc \notin {"idle", "done"} /\ calls[d].kind = "complete"
           /\ calls[d].provider = p
        THEN [calls[d] EXCEPT !.overlap = TRUE]
        ELSE calls[d]]

\* the last two entries of a chain with s appended
Chained(ch, s) == IF Len(ch) = 0 THEN <<s>> ELSE <<ch[Len(ch)], s>>

(***************************************************************************)
(* start_oauth                                                             *)
(***************************************************************************)

\* lines 57-68: OAuthClient::new fails on a malformed redirect_uri; otherwise
\* get_authorization_url draws the verifier and the CSRF token, and the
\* command locks the verifier Mutex and writes Some(pkce_verifier)
StartOAuth(c, provider, redirect_ok) ==
    /\ NextToBegin(c)
    /\ LET s == SlotOf(provider)
       IN IF ClientBuilt(redirect_ok)
          THEN /\ verifier_lock[s] = 0
               /\ verifier_lock' = [verifier_lock EXCEPT ![s] = c]
               /\ pkce_verifier_slot' = [pkce_verifier_slot EXCEPT
                      ![s] = StoreSome(@, next_secret)]
               /\ call' = [MarkOverlap(call, provider) EXCEPT ![c] =
                      [@ EXCEPT !.pc = "store_csrf", !.kind = "start",
                                !.provider = provider,
                                !.redirect_ok = redirect_ok,
                                !.pkce_verifier = next_secret,
                                !.csrf_token = next_secret]]
               /\ next_secret' = next_secret + 1
               /\ ended' = [ended EXCEPT ![provider] = "none"]
          ELSE /\ call' = [call EXCEPT ![c] =
                      [@ EXCEPT !.pc = "done", !.kind = "start",
                                !.provider = provider,
                                !.redirect_ok = redirect_ok,
                                !.result = "ConfigurationError"]]
               /\ UNCHANGED <<pkce_verifier_slot, verifier_lock, next_secret,
                              ended>>
    /\ UNCHANGED <<csrf_state, csrf_lock, requests, last_returned, chain,
                   non_session_vars>>

\* let mut csrf_lock = ...lock().unwrap(); *csrf_lock = Some(csrf_token.secret())
StartStoreCsrf(c) ==
    /\ call[c].pc = "store_csrf"
    /\ LET p == call[c].provider
           s == SlotOf(p)
       IN /\ csrf_lock[s] = 0
          /\ csrf_lock' = [csrf_lock EXCEPT ![s] = c]
          /\ csrf_state' = [csrf_state EXCEPT
                 ![s] = StoreSome(@, call[c].csrf_token)]
          /\ call' = [MarkOverlap(call, p) EXCEPT ![c].pc = "return_url"]
    /\ UNCHANGED <<pkce_verifier_slot, verifier_lock, next_secret, requests,
                   last_returned, chain, ended, non_session_vars>>

\* end of the match arm: both guards dropped; Ok(auth_url)
StartReturn(c) ==
    /\ call[c].pc = "return_url"
    /\ LET p == call[c].provider
           s == SlotOf(p)
       IN /\ csrf_lock' = [csrf_lock EXCEPT ![s] = Unlocked(c)]
          /\ verifier_lock' = [verifier_lock EXCEPT ![s] = Unlocked(c)]
          /\ call' = [call EXCEPT ![c].pc = "done", ![c].result = "Ok"]
          /\ last_returned' = [last_returned EXCEPT ![p] = call[c].csrf_token]
          /\ chain' = [chain EXCEPT ![p] = Chained(@, call[c].csrf_token)]
    /\ UNCHANGED <<pkce_verifier_slot, csrf_state, next_secret, requests, ended,
                   non_session_vars>>

(***************************************************************************)
(* complete_oauth                                                          *)
(***************************************************************************)

\* lines 97-119: clone the stored CSRF state under its lock, compare it with
\* received_state, then build the OAuthClient
CompleteValidate(c, provider, redirect_ok, received) ==
    /\ NextToBegin(c)
    /\ LET s == SlotOf(provider)
           expected == csrf_state[s]
           entered == [call[c] EXCEPT
                          !.kind = "complete", !.provider = provider,
                          !.redirect_ok = redirect_ok,
                          !.received_state = received,
                          !.expected_state = expected,
                          !.prior = ended[provider],
                          !.slot_at_entry = pkce_verifier_slot[s],
                          !.returned_at_entry = last_returned[provider],
                          !.chain_at_entry = chain[provider],
                          !.overlap = (verifier_lock[s] # 0)]
       IN /\ csrf_lock[s] = 0
          /\ csrf_lock' = [csrf_lock EXCEPT ![s] = GuardDropped(c)]
          /\ IF StateCheckFails(received, expected)
             THEN /\ call' = [call EXCEPT ![c] =
                        [entered EXCEPT !.pc = "done", !.result = "CsrfMismatch"]]
                  /\ ended' = [ended EXCEPT ![provider] = "CsrfMismatch"]
                  /\ requests' = ReturnedErr(requests,
                         [by |-> c, provider |-> provider,
                          verifier |-> pkce_verifier_slot[s]])
             ELSE IF ~ClientBuilt(redirect_ok)
             THEN /\ call' = [call EXCEPT ![c] =
                        [entered EXCEPT !.pc = "done",
                                        !.result = "ConfigurationError"]]
                  /\ ended' = [ended EXCEPT ![provider] = "ConfigurationError"]
                  /\ UNCHANGED requests
             ELSE /\ call' = [call EXCEPT ![c] = [entered EXCEPT !.pc = "take"]]
                  /\ UNCHANGED <<ended, requests>>
    /\ UNCHANGED <<pkce_verifier_slot, csrf_state, verifier_lock, next_secret,
                   last_returned, chain, non_session_vars>>

\* lines 121-136: take the verifier under its lock, or fail; with a verifier
\* in hand exchange_code sends the token request
CompleteTake(c) ==
    /\ call[c].pc = "take"
    /\ LET p == call[c].provider
           s == SlotOf(p)
           found == pkce_verifier_slot[s]
       IN /\ verifier_lock[s] = 0
          /\ verifier_lock' = [verifier_lock EXCEPT ![s] = GuardDropped(c)]
          /\ IF VerifierMissing(found)
             THEN /\ call' = [call EXCEPT ![c].pc = "done",
                                          ![c].result = "MissingSession"]
                  /\ ended' = [ended EXCEPT ![p] = "MissingSession"]
                  /\ UNCHANGED <<pkce_verifier_slot, requests, chain>>
             ELSE /\ pkce_verifier_slot' = [pkce_verifier_slot EXCEPT
                         ![s] = TakeLeaves(@)]
                  /\ call' = [call EXCEPT ![c].pc = "exchange",
                                          ![c].pkce_verifier = found]
                  /\ requests' = requests \cup
                         {[by |-> c, provider |-> p, verifier |-> found]}
                  /\ chain' = [chain EXCEPT ![p] = <<>>]
                  /\ UNCHANGED ended
    /\ UNCHANGED <<csrf_state, csrf_lock, next_secret, last_returned,
                   non_session_vars>>

\* lines 135-153: the awaited request comes back; an error is returned as it
\* is, a token response is followed by clearing the CSRF state under its lock
CompleteExchange(c, outcome) ==
    /\ call[c].pc = "exchange"
    /\ LET p == call[c].provider
           s == SlotOf(p)
       IN /\ call' = [call EXCEPT ![c].pc = "done", ![c].result = outcome]
          /\ ended' = [ended EXCEPT ![p] = outcome]
          /\ IF ClearsState(outcome)
             THEN /\ csrf_lock[s] = 0
                  /\ csrf_lock' = [csrf_lock EXCEPT ![s] = GuardDropped(c)]
                  /\ csrf_state' = [csrf_state EXCEPT ![s] = None]
                  /\ chain' = [chain EXCEPT ![p] = <<>>]
             ELSE UNCHANGED <<csrf_lock, csrf_state, chain>>
    /\ UNCHANGED <<pkce_verifier_slot, verifier_lock, next_secret, requests,
                   last_returned, non_session_vars>>

(***************************************************************************)
(* The specification of the session store.                                 *)
(***************************************************************************)
\* what a caller can pass as received_state: nothing, a made-up value, or a
\* state that some start has generated
ReceivedStates == {None, Forged} \cup (1 .. (next_secret - 1))

Start ==
    \E c \in Calls, p \in Providers, ok \in BOOLEAN : StartOAuth(c, p, ok)
StoreCsrf == \E c \in Calls : StartStoreCsrf(c)
Return == \E c \in Calls : StartReturn(c)
Validate ==
    \E c \in Calls, p \in Providers, ok \in BOOLEAN, r \in ReceivedStates :
        CompleteValidate(c, p, ok, r)
Take == \E c \in Calls : CompleteTake(c)
Exchange == \E c \in Calls, o \in ExchangeOutcomes : CompleteExchange(c, o)

Next ==
    \/ Start
    \/ StoreCsrf
    \/ Return
    \/ Validate
    \/ Take
    \/ Exchange

Spec == Init /\ [][Next]_vars

\* A command that has begun keeps running: start_oauth has no await between
\* its lock operations, a blocked lock() returns once the Mutex is free, and
\* the runtime resumes complete_oauth when its token request has ended.
Fairness ==
    \A c \in Calls :
        /\ WF_vars(StartStoreCsrf(c))
        /\ WF_vars(StartReturn(c))
        /\ WF_vars(CompleteTake(c))
        /\ WF_vars(\E o \in ExchangeOutcomes : CompleteExchange(c, o))
SpecFair == Init /\ [][Next]_vars /\ Fairness

(***************************************************************************)
(* The specification of the expiry check: a token with any expiry in       *)
(* TokenExpiries is checked at clock readings that advance minute by       *)
(* minute.                                                                 *)
(***************************************************************************)
MinuteMs == 60 * 1000

\* expiries around the margin at every clock reading, and whole minutes from
\* an hour ago to ten minutes after the last reading
TokenExpiries ==
    {k * MinuteMs + buffer + d :
        k \in 0 .. MaxClockMinutes, d \in (0 - MaxSkew) .. MaxSkew}
    \cup {m * MinuteMs : m \in (0 - 60) .. (MaxClockMinutes + 10)}

ExpiryInit ==
    /\ SessionInit
    /\ SerdeIdle
    /\ DeepLinkIdle
    /\ TokenIdle
    /\ UrlIdle
    /\ token_expires_at \in TokenExpiries
    /\ now_ms = 0
    /\ expiry_checked = FALSE
    /\ expired_result = FALSE

\* check_token_expiration(token_data): Ok(is_token_expired(&token_data))
CheckTokenExpiration ==
    /\ ~expiry_checked
    /\ expiry_checked' = TRUE
    /\ expired_result' = is_token_expired(token_expires_at, now_ms)
    /\ UNCHANGED <<token_expires_at, now_ms, non_expiry_vars>>

\* time passes before the next check
ClockTick ==
    /\ now_ms < MaxClockMinutes * MinuteMs
    /\ now_ms' = now_ms + MinuteMs
    /\ expiry_checked' = FALSE
    /\ expired_result' = FALSE
    /\ UNCHANGED <<token_expires_at, non_expiry_vars>>

ExpiryNext ==
    \/ CheckTokenExpiration
    \/ ClockTick

SpecExpiry == ExpiryInit /\ [][ExpiryNext]_vars

(***************************************************************************)
(* The specification of the token client: OAuthClient::exchange_code and   *)
(* OAuthClient::refresh_token send one request to the provider's token     *)
(* endpoint and normalize the response into a TokenData; the consumer      *)
(* application's http_request command proxies a request through            *)
(* HTTP_CLIENT.  The provider's response is any combination of the values  *)
(* below.  i64 and u64 are IntBits wide here.                              *)
(***************************************************************************)
Apps == {"consumer", "desktop"}
Builds == {"debug", "release"}
TokenOps == {"exchange_code", "refresh_token", "http_request"}
RequestFailures == {"NetworkError", "ProviderError"}

IMax == 2^(IntBits - 1) - 1
IMin == -(2^(IntBits - 1))
UMax == 2^IntBits - 1

\* refresh tokens are numbered; the caller holds 1 or 2, the provider may
\* send back the caller's own token 1 or a rotated token 3
OldRefreshTokens == {1, 2}
ProviderRefreshTokens == {None, 1, 3}
\* expires_in as the provider may send it (u64 seconds), at the edges of
\* what the i64 arithmetic can hold
ExpiresInValues ==
    {0, 1, 3600, IMax \div 1000, (IMax \div 1000) + 1, IMax, IMax + 1, UMax}
NowValues == {0, 1000, MinuteMs}
TokenResponses ==
    [refresh_token : ProviderRefreshTokens, has_expires_in : {TRUE},
     expires_in : ExpiresInValues, token_type : {"bearer", "mac"}]
    \cup
    [refresh_token : ProviderRefreshTokens, has_expires_in : {FALSE},
     expires_in : {0}, token_type : {"bearer", "mac"}]

\* `u as i64`: the same bits read as a signed number
as_i64(u) == IF u > IMax THEN u - 2^IntBits ELSE u
\* the value an i64 holds after an operation whose exact result is x
wrapping(x) == ((x - IMin) % 2^IntBits) + IMin
\* a * 1000 as an i64 holds it, by three multiplications by 10
times_1000(a) == wrapping(wrapping(wrapping(a * 10) * 10) * 10)
mul_overflows(a) == a > IMax \div 1000 \/ a < -((-IMin) \div 1000)
add_overflows(a, b) == a + b > IMax \/ a + b < IMin

default_expires_in == 3600
expires_in_secs(resp) ==
    IF resp.has_expires_in THEN as_i64(resp.expires_in)
    ELSE default_expires_in
\* Utc::now().timestamp_millis() + (expires_in_secs * 1000)
expires_at_overflows(resp, now) ==
    \/ mul_overflows(expires_in_secs(resp))
    \/ add_overflows(now, times_1000(expires_in_secs(resp)))
expires_at_of(resp, now) == wrapping(now + times_1000(expires_in_secs(resp)))

\* refresh_token: the provider's new refresh token, or else the old one
NoCarryForward(new, old) == new
CarryForward(new, old) == IF new # None THEN new ELSE old

\* the HTTP client an operation hands its request to
ClientPerCall(op) == "async_http_client"
TransportOf(op) ==
    IF op = "http_request" THEN "HTTP_CLIENT" ELSE "async_http_client"

\* where a call goes when its request failed
RetryAfterFailure(kind) == IF kind = "NetworkError" THEN "send" ELSE "done"
AfterFailure(kind) == "done"

\* token_type: "Bearer".to_string(), not the response's token_type()
DeclaredTokenType(resp) == resp.token_type
ConstantTokenType(resp) == "Bearer"

\* the TokenData (or error, or panic) that follows a token response
Normalize(app, build, op, old, resp, now) ==
    IF app = "desktop" /\ op = "exchange_code" /\ resp.refresh_token = None
    THEN [NoResult EXCEPT !.status = "NoRefreshToken"]
    ELSE IF build = "debug" /\ expires_at_overflows(resp, now)
    THEN [NoResult EXCEPT !.status = "Panic"]
    ELSE [status |-> "Ok",
          refresh_token |->
              IF op = "refresh_token"
              THEN CarryForward(resp.refresh_token, old)
              ELSE resp.refresh_token,
          expires_at |-> expires_at_of(resp, now),
          token_type |-> ConstantTokenType(resp)]

TokenInit ==
    /\ SessionInit
    /\ SerdeIdle
    /\ DeepLinkIdle
    /\ ExpiryIdle
    /\ UrlIdle
    /\ tok_app \in Apps
    /\ tok_build \in Builds
    /\ tok_pc = "idle"
    /\ tok_op = "none"
    /\ tok_old_refresh = None
    /\ tok_calls = 0
    /\ tok_sent = 0
    /\ tok_requests = <<>>
    /\ tok_response = NoResponse
    /\ tok_now = 0
    /\ tok_result = NoResult

\* a caller invokes exchange_code, refresh_token(old) or http_request
BeginCall(op, old) ==
    /\ tok_pc \in {"idle", "done"}
    /\ tok_calls < MaxTokenCalls
    /\ op = "http_request" => tok_app = "consumer"
    /\ old # None <=> op = "refresh_token"
    /\ tok_pc' = "send"
    /\ tok_op' = op
    /\ tok_old_refresh' = old
    /\ tok_calls' = tok_calls + 1
    /\ tok_sent' = 0
    /\ tok_response' = NoResponse
    /\ tok_now' = 0
    /\ tok_result' = NoResult
    /\ UNCHANGED <<tok_app, tok_build, tok_requests, non_token_vars>>

\* request_async(async_http_client) / request.send(): the request leaves
SendRequest ==
    /\ tok_pc = "send"
    /\ tok_sent < MaxSends
    /\ tok_pc' = "awaiting"
    /\ tok_sent' = tok_sent + 1
    /\ tok_requests' =
           Append(tok_requests, [op |-> tok_op, client |-> TransportOf(tok_op)])
    /\ UNCHANGED <<tok_app, tok_build, tok_op, tok_old_refresh, tok_calls,
                   tok_response, tok_now, tok_result, non_token_vars>>

\* the awaited request ends in an error, which `?` returns to the caller
RequestFails(kind) ==
    /\ tok_pc = "awaiting"
    /\ tok_pc' = AfterFailure(kind)
    /\ tok_result' = IF tok_pc' = "done"
                     THEN [NoResult EXCEPT !.status = kind]
                     ELSE tok_result
    /\ UNCHANGED <<tok_app, tok_build, tok_op, tok_old_refresh, tok_calls,
                   tok_sent, tok_requests, tok_response, tok_now,
                   non_token_vars>>

\* the token endpoint answers; the response is normalized at clock reading now
TokenResponse(resp, now) ==
    /\ tok_pc = "awaiting"
    /\ tok_op \in {"exchange_code", "refresh_token"}
    /\ tok_pc' = "done"
    /\ tok_response' = resp
    /\ tok_now' = now
    /\ tok_result' =
           Normalize(tok_app, tok_build, tok_op, tok_old_refresh, resp, now)
    /\ UNCHANGED <<tok_app, tok_build, tok_op, tok_old_refresh, tok_calls,
                   tok_sent, tok_requests, non_token_vars>>

\* the proxied request is answered; http_request returns status and body
HttpResponse ==
    /\ tok_pc = "awaiting"
    /\ tok_op = "http_request"
    /\ tok_pc' = "done"
    /\ tok_result' = [NoResult EXCEPT !.status = "Ok"]
    /\ UNCHANGED <<tok_app, tok_build, tok_op, tok_old_refresh, tok_calls,
                   tok_sent, tok_requests, tok_response, tok_now,
                   non_token_vars>>

Begin == \E op \in TokenOps : \E old \in OldRefreshTokens \cup {None} :
             BeginCall(op, old)
Fails == \E kind \in RequestFailures : RequestFails(kind)
Responds == \E resp \in TokenResponses : \E now \in NowValues :
                TokenResponse(resp, now)

TokenNext ==
    \/ Begin
    \/ SendRequest
    \/ Fails
    \/ Responds
    \/ HttpResponse

SpecToken == TokenInit /\ [][TokenNext]_vars

(***************************************************************************)
(* The specification of the authorization URL: start_oauth's call of       *)
(* OAuthClient::get_authorization_url and the store of the verifier it     *)
(* returns.  Text is a sequence of pieces: words, and the characters that  *)
(* separate query parameters.  The query serializer percent-encodes the    *)
(* separators inside a key or a value.  The PKCE challenge is the          *)
(* base64url(SHA-256(..)) of the verifier, written S256: an injective map  *)
(* into texts that are no verifier.                                        *)
(***************************************************************************)
S256(verifier) == "b64url-sha256:" \o ToString(verifier)
StateText(csrf) == "state:" \o ToString(csrf)

MS_AUTH_URL == "https://login.microsoftonline.com/consumers/oauth2/v2.0/authorize"
GOOGLE_AUTH_URL == "https://accounts.google.com/o/oauth2/v2/auth"
AuthUrlOf(provider) ==
    IF provider = "microsoft" THEN MS_AUTH_URL ELSE GOOGLE_AUTH_URL

\* caller-chosen texts, some of them carrying the Google parameters
ClientIds == { <<"test-client-id">>, <<"x", "&", "prompt", "=", "consent">> }
RedirectUri == <<"ownyou://oauth/callback">>
CallerScopes ==
    { <<"Mail.Read">>,
      <<"access_type", "=", "offline">>,
      <<"x", "&", "access_type", "=", "offline", "&", "prompt", "=", "consent">> }
ScopeLists == UNION { [1..n -> CallerScopes] : n \in 0..MaxScopes }
\* the scopes apps/desktop adds by itself
FixedScopes(provider) ==
    IF provider = "microsoft"
    THEN << <<"offline_access">>,
            <<"https://graph.microsoft.com/Mail.Read">>,
            <<"https://graph.microsoft.com/User.Read">> >>
    ELSE << <<"https://www.googleapis.com/auth/gmail.readonly">>,
            <<"https://www.googleapis.com/auth/userinfo.email">> >>

\* application/x-www-form-urlencoded serialization of one piece
EncodePiece(piece) ==
    CASE piece = "=" -> "%3D"
      [] piece = "&" -> "%26"
      [] piece = " " -> "+"
      [] piece = "ownyou://oauth/callback" -> "ownyou%3A%2F%2Foauth%2Fcallback"
      [] piece = "https://graph.microsoft.com/Mail.Read" ->
             "https%3A%2F%2Fgraph.microsoft.com%2FMail.Read"
      [] piece = "https://graph.microsoft.com/User.Read" ->
             "https%3A%2F%2Fgraph.microsoft.com%2FUser.Read"
      [] piece = "https://www.googleapis.com/auth/gmail.readonly" ->
             "https%3A%2F%2Fwww.googleapis.com%2Fauth%2Fgmail.readonly"
      [] piece = "https://www.googleapis.com/auth/userinfo.email" ->
             "https%3A%2F%2Fwww.googleapis.com%2Fauth%2Fuserinfo.email"
      [] OTHER -> piece
Encoded(text) == [i \in DOMAIN text |-> EncodePiece(text[i])]
Pair(key, value) == <<key, "=">> \o Encoded(value)

RECURSIVE JoinScopes(_)
\* scopes joined by single spaces
JoinScopes(scopes) ==
    IF Len(scopes) = 0 THEN <<>>
    ELSE IF Len(scopes) = 1 THEN scopes[1]
    ELSE scopes[1] \o <<" ">> \o JoinScopes(Tail(scopes))

\* AuthorizationRequest::url(): the query pairs in the order the oauth2
\* crate appends them; the scope pair only when a scope was added
AuthorizationUrl(provider, client_id, csrf, challenge, scopes) ==
    <<AuthUrlOf(provider), "?">>
    \o Pair("response_type", <<"code">>)
    \o <<"&">> \o Pair("client_id", client_id)
    \o <<"&">> \o Pair("state", <<StateText(csrf)>>)
    \o <<"&">> \o Pair("code_challenge", <<challenge>>)
    \o <<"&">> \o Pair("code_challenge_method", <<"S256">>)
    \o <<"&">> \o Pair("redirect_uri", RedirectUri)
    \o (IF Len(scopes) = 0 THEN <<>>
        ELSE <<"&">> \o Pair("scope", JoinScopes(scopes)))

\* format!("{}&access_type=offline&prompt=consent", url_string)
GoogleParams ==
    <<"&", "access_type", "=", "offline", "&", "prompt", "=", "consent">>
AppendsToEvery(provider) == TRUE
AppendsGoogleParams(provider) == provider = "google"

\* the verifier start_oauth stores is the one get_authorization_url returned
FreshVerifier(verifier) == verifier + 1
VerifierKept(verifier) == verifier

\* the scopes get_authorization_url adds: the caller's, or the fixed ones
ScopesToAdd ==
    IF url_app = "consumer" THEN url_scopes_arg ELSE FixedScopes(url_provider)

\* start_oauth builds the client and enters get_authorization_url, which
\* draws the verifier/challenge pair and begins the authorization request
UrlStart(app, provider, client_id, scopes) ==
    /\ url_pc \in {"idle", "done"}
    /\ url_calls < MaxUrlCalls
    /\ app = "desktop" => scopes = <<>>
    /\ url_app' = app
    /\ url_provider' = provider
    /\ url_client_id' = client_id
    /\ url_scopes_arg' = scopes
    /\ url_calls' = url_calls + 1
    /\ url_verifier' = url_calls + 1
    /\ url_challenge' = S256(url_calls + 1)
    /\ url_csrf' = url_calls + 1
    /\ url_added' = <<>>
    /\ url_string' = <<>>
    /\ url_returned' = <<>>
    /\ url_pc' = "add_scope"
    /\ UNCHANGED <<url_stored_verifier, non_url_vars>>

\* one iteration of the loop over the scopes
AddScope ==
    /\ url_pc = "add_scope"
    /\ Len(url_added) < Len(ScopesToAdd)
    /\ url_added' = Append(url_added, ScopesToAdd[Len(url_added) + 1])
    /\ UNCHANGED <<url_app, url_provider, url_client_id, url_scopes_arg, url_pc,
                   url_calls, url_verifier, url_challenge, url_csrf, url_string,
                   url_stored_verifier, url_returned, non_url_vars>>

\* auth_builder.url(), then the Google parameters
BuildUrl ==
    /\ url_pc = "add_scope"
    /\ Len(url_added) = Len(ScopesToAdd)
    /\ url_string' =
           AuthorizationUrl(url_provider, url_client_id, url_csrf,
                            url_challenge, url_added)
           \o (IF AppendsGoogleParams(url_provider) THEN GoogleParams
               ELSE <<>>)
    /\ url_pc' = "store"
    /\ UNCHANGED <<url_app, url_provider, url_client_id, url_scopes_arg,
                   url_calls, url_added, url_verifier, url_challenge, url_csrf,
                   url_stored_verifier, url_returned, non_url_vars>>

\* start_oauth stores the returned verifier and returns the URL
StoreAndReturn ==
    /\ url_pc = "store"
    /\ url_stored_verifier' =
           [url_stored_verifier EXCEPT ![url_provider] =
                VerifierKept(url_verifier)]
    /\ url_returned' = url_string
    /\ url_pc' = "done"
    /\ UNCHANGED <<url_app, url_provider, url_client_id, url_scopes_arg,
                   url_calls, url_added, url_verifier, url_challenge, url_csrf,
                   url_string, non_url_vars>>

UrlInit ==
    /\ SessionInit
    /\ SerdeIdle
    /\ DeepLinkIdle
    /\ ExpiryIdle
    /\ TokenIdle
    /\ UrlIdle

StartsUrl ==
    \E app \in Apps : \E provider \in Providers : \E client_id \in ClientIds :
        \E scopes \in ScopeLists : UrlStart(app, provider, client_id, scopes)

UrlNext ==
    \/ StartsUrl
    \/ AddScope
    \/ BuildUrl
    \/ StoreAndReturn

SpecUrl == UrlInit /\ [][UrlNext]_vars

(***************************************************************************)
(* The specification of deep-link delivery.  In apps/consumer a second     *)
(* process hands its argv to the single-instance handler of the running    *)
(* instance.  In apps/desktop (macOS) the deep-link plugin publishes       *)
(* deep-link://new-url and a listener republishes it.  A text is a         *)
(* sequence of pieces; a JSON payload is an array of texts or one text.    *)
(***************************************************************************)
Scheme == "ownyou://"
CallbackUrl == <<Scheme, "oauth/callback?code=abc&state=xyz">>
Arguments ==
    { <<"/Applications/OwnYou.app/Contents/MacOS/ownyou">>,
      CallbackUrl,
      <<"--redirect=", Scheme, "oauth/callback">>,
      <<"https://", "example.com/">>,
      <<Scheme, "settings">> }
Argvs == UNION { [1..n -> Arguments] : n \in 1..(MaxArgs + 1) }

\* argv.iter().skip(1): the position of the first argument the loop visits
SkipNone(argv) == 1
SkipFirst(argv) == 2

\* arg.starts_with("ownyou://")
ContainsScheme(arg) == \E k \in DOMAIN arg : arg[k] = Scheme
StartsWithScheme(arg) == Len(arg) >= 1 /\ arg[1] = Scheme

\* serde_json values and their JSON text
JsonArray(items) == [kind |-> "array", items |-> items, text |-> <<>>]
JsonString(text) == [kind |-> "string", items |-> <<>>, text |-> text]
NoPayload == [kind |-> "none", items |-> <<>>, text |-> <<>>]
RECURSIVE JsonItems(_)
JsonItems(items) ==
    IF Len(items) = 0 THEN <<>>
    ELSE <<"\"">> \o items[1] \o <<"\"">>
         \o (IF Len(items) = 1 THEN <<>> ELSE <<",">>)
         \o JsonItems(Tail(items))
JsonText(value) ==
    IF value.kind = "array" THEN <<"[">> \o JsonItems(value.items) \o <<"]">>
    ELSE <<"\"">> \o value.text \o <<"\"">>
\* what the deep-link plugin may publish for one opened URL
PluginPayloads(url) == { JsonArray(<<url>>), JsonString(url) }

Emit(name, payload, ok) ==
    [op |-> "emit", name |-> name, payload |-> payload, ok |-> ok]
WindowRequest(op) ==
    [op |-> op, name |-> "main", payload |-> NoPayload, ok |-> TRUE]

DeepLinkInit ==
    /\ SessionInit
    /\ SerdeIdle
    /\ ExpiryIdle
    /\ TokenIdle
    /\ UrlIdle
    /\ dl_app \in Apps
    /\ dl_pc = "idle"
    /\ dl_argv = <<>>
    /\ dl_i = 0
    /\ dl_window \in BOOLEAN
    /\ dl_event_payload = <<>>
    /\ dl_log = <<>>

\* the single-instance plugin calls the handler with the second process's
\* argv; argv.iter().skip(1) starts at the second element
SecondInstance(argv) ==
    /\ dl_app = "consumer"
    /\ dl_pc = "idle"
    /\ dl_argv' = argv
    /\ dl_i' = SkipFirst(argv)
    /\ dl_pc' = "loop"
    /\ UNCHANGED <<dl_app, dl_window, dl_event_payload, dl_log,
                   non_deeplink_vars>>

\* one iteration of the loop over the arguments; the emit may fail, which
\* is logged and ignored
LoopStep(ok) ==
    /\ dl_pc = "loop"
    /\ dl_i <= Len(dl_argv)
    /\ dl_i' = dl_i + 1
    /\ IF StartsWithScheme(dl_argv[dl_i])
       THEN dl_log' = Append(dl_log, Emit("deep-link-received",
                                          JsonArray(<<dl_argv[dl_i]>>), ok))
       ELSE ok /\ dl_log' = dl_log
    /\ UNCHANGED <<dl_app, dl_pc, dl_argv, dl_window, dl_event_payload,
                   non_deeplink_vars>>

\* after the loop: focus the existing window, if there is one
FocusWindow ==
    /\ dl_pc = "loop"
    /\ dl_i > Len(dl_argv)
    /\ dl_log' = IF dl_window
                 THEN dl_log \o <<WindowRequest("set_focus"),
                                  WindowRequest("unminimize")>>
                 ELSE dl_log
    /\ dl_pc' = "done"
    /\ UNCHANGED <<dl_app, dl_argv, dl_i, dl_window, dl_event_payload,
                   non_deeplink_vars>>

\* the deep-link plugin publishes deep-link://new-url for an opened URL;
\* the listener reads event.payload(), the JSON text of that payload
OsNotification(payload) ==
    /\ dl_app = "desktop"
    /\ dl_pc = "idle"
    /\ dl_event_payload' = JsonText(payload)
    /\ dl_pc' = "listener"
    /\ UNCHANGED <<dl_app, dl_argv, dl_i, dl_window, dl_log,
                   non_deeplink_vars>>

\* the listener re-emits the payload text; the emit's result is dropped
ListenerEmit(ok) ==
    /\ dl_pc = "listener"
    /\ dl_log' = Append(dl_log, Emit("deep-link-received",
                                     JsonString(dl_event_payload), ok))
    /\ dl_pc' = "done"
    /\ UNCHANGED <<dl_app, dl_argv, dl_i, dl_window, dl_event_payload,
                   non_deeplink_vars>>

Relaunch == \E argv \in Argvs : SecondInstance(argv)
Loop == \E ok \in BOOLEAN : LoopStep(ok)
Notify == \E payload \in PluginPayloads(CallbackUrl) : OsNotification(payload)
Republish == \E ok \in BOOLEAN : ListenerEmit(ok)

DeepLinkNext ==
    \/ Relaunch
    \/ Loop
    \/ FocusWindow
    \/ Notify
    \/ Republish

SpecDeepLink == DeepLinkInit /\ [][DeepLinkNext]_vars

(***************************************************************************)
(* The specification of TokenData serialization: serde_json::to_string of  *)
(* a TokenData (derive(Serialize), rename_all = "camelCase") and           *)
(* serde_json::from_str of the result.  JSON text is a sequence of         *)
(* pieces; inside a JSON string the quote and the backslash are escaped    *)
(* by a backslash.                                                         *)
(***************************************************************************)
Quote == "\""
Backslash == "\\"
\* field texts: plain, empty, with characters that JSON escapes, with JSON
\* punctuation, and the word null
FieldTexts ==
    { <<"token">>, <<>>, <<"a", Quote, Backslash, "b">>,
      <<Backslash, Quote, ",", "}">>, <<"null">> }
SomeText(text) == [some |-> TRUE, text |-> text]
NoneText == [some |-> FALSE, text |-> <<>>]
ExpiresAtValues == {IMin, -1, 0, 3600 * 1000, IMax}
TokenDatas ==
    [access_token : FieldTexts,
     refresh_token : {NoneText} \cup {SomeText(t) : t \in FieldTexts},
     expires_at : ExpiresAtValues,
     scope : {<<>>, <<"Mail.Read", " ", "User.Read">>},
     token_type : {<<"Bearer">>}]
NoTokenData ==
    [access_token |-> <<>>, refresh_token |-> NoneText, expires_at |-> 0,
     scope |-> <<>>, token_type |-> <<>>]

\* serialization -------------------------------------------------------
Unescaped(piece) == <<piece>>
EscapePiece(piece) ==
    IF piece = Quote \/ piece = Backslash THEN <<Backslash, piece>>
    ELSE <<piece>>
RECURSIVE EscapeText(_)
EscapeText(text) ==
    IF Len(text) = 0 THEN <<>>
    ELSE EscapePiece(text[1]) \o EscapeText(Tail(text))
JsonStr(text) == <<Quote>> \o EscapeText(text) \o <<Quote>>
JsonOpt(opt) == IF opt.some THEN JsonStr(opt.text) ELSE <<"null">>
DigitChars == <<"0", "1", "2", "3", "4", "5", "6", "7", "8", "9">>
RECURSIVE DigitsOf(_)
DigitsOf(n) ==
    IF n < 10 THEN <<DigitChars[n + 1]>>
    ELSE DigitsOf(n \div 10) \o <<DigitChars[(n % 10) + 1]>>
JsonNum(n) == IF n < 0 THEN <<"-">> \o DigitsOf(-n) ELSE DigitsOf(n)
JsonKey(name) == <<Quote, name, Quote, ":">>
\* serde_json::to_string(&token): the fields in declaration order
to_string(token) ==
    <<"{">> \o JsonKey("accessToken") \o JsonStr(token.access_token)
    \o <<",">> \o JsonKey("refreshToken") \o JsonOpt(token.refresh_token)
    \o <<",">> \o JsonKey("expiresAt") \o JsonNum(token.expires_at)
    \o <<",">> \o JsonKey("scope") \o JsonStr(token.scope)
    \o <<",">> \o JsonKey("tokenType") \o JsonStr(token.token_type)
    \o <<"}">>

\* deserialization -----------------------------------------------------
\* what reading one value from position i gives: the value and the position
\* after it, or a failure
ReadFail ==
    [ok |-> FALSE, some |-> FALSE, text |-> <<>>, number |-> 0, next |-> 0]
RECURSIVE ScanString(_, _, _)
ScanString(json, j, acc) ==
    IF j > Len(json) THEN ReadFail
    ELSE IF json[j] = Quote
    THEN [ok |-> TRUE, some |-> TRUE, text |-> acc, number |-> 0,
          next |-> j + 1]
    ELSE IF json[j] = Backslash
    THEN IF j + 1 > Len(json) THEN ReadFail
         ELSE ScanString(json, j + 2, Append(acc, json[j + 1]))
    ELSE ScanString(json, j + 1, Append(acc, json[j]))
ReadString(json, i) ==
    IF i = 0 \/ i > Len(json) \/ json[i] # Quote THEN ReadFail
    ELSE ScanString(json, i + 1, <<>>)
ReadOption(json, i) ==
    IF i = 0 \/ i > Len(json) THEN ReadFail
    ELSE IF json[i] = "null"
    THEN [ok |-> TRUE, some |-> FALSE, text |-> <<>>, number |-> 0,
          next |-> i + 1]
    ELSE ReadString(json, i)
IsDigit(piece) == \E k \in 1..10 : DigitChars[k] = piece
DigitValue(piece) == (CHOOSE k \in 1..10 : DigitChars[k] = piece) - 1
RECURSIVE ScanDigits(_, _, _)
ScanDigits(json, j, acc) ==
    IF j <= Len(json) /\ IsDigit(json[j])
    THEN ScanDigits(json, j + 1, acc * 10 + DigitValue(json[j]))
    ELSE [ok |-> TRUE, some |-> TRUE, text |-> <<>>, number |-> acc,
          next |-> j]
ReadNumber(json, i) ==
    IF i = 0 \/ i > Len(json) THEN ReadFail
    ELSE IF json[i] = "-"
    THEN IF i + 1 <= Len(json) /\ IsDigit(json[i + 1])
         THEN LET m == ScanDigits(json, i + 1, 0)
              IN [m EXCEPT !.number = -(m.number)]
         ELSE ReadFail
    ELSE IF IsDigit(json[i]) THEN ScanDigits(json, i, 0)
    ELSE ReadFail
\* the position after `"name":` at position i, or 0
ReadKey(json, i, name) ==
    IF i # 0 /\ i + 3 <= Len(json) /\ SubSeq(json, i, i + 3) = JsonKey(name)
    THEN i + 4 ELSE 0
\* the position after the piece expected at position i, or 0
Expect(json, i, piece) ==
    IF i # 0 /\ i <= Len(json) /\ json[i] = piece THEN i + 1 ELSE 0
\* serde_json::from_str::<TokenData>(json)
from_str(json) ==
    LET access == ReadString(json,
                      ReadKey(json, Expect(json, 1, "{"), "accessToken"))
        refresh == ReadOption(json,
                      ReadKey(json, Expect(json, access.next, ","),
                              "refreshToken"))
        expires == ReadNumber(json,
                      ReadKey(json, Expect(json, refresh.next, ","),
                              "expiresAt"))
        scope == ReadString(json,
                      ReadKey(json, Expect(json, expires.next, ","), "scope"))
        type == ReadString(json,
                      ReadKey(json, Expect(json, scope.next, ","),
                              "tokenType"))
    IN IF /\ access.ok /\ refresh.ok /\ expires.ok /\ scope.ok /\ type.ok
          /\ Expect(json, type.next, "}") = Len(json) + 1
       THEN [ok |-> TRUE,
             value |-> [access_token |-> access.text,
                        refresh_token |-> [some |-> refresh.some,
                                           text |-> refresh.text],
                        expires_at |-> expires.number,
                        scope |-> scope.text,
                        token_type |-> type.text]]
       ELSE [ok |-> FALSE, value |-> NoTokenData]

SerdeInit ==
    /\ SessionInit
    /\ ExpiryIdle
    /\ TokenIdle
    /\ UrlIdle
    /\ DeepLinkIdle
    /\ ser_token \in TokenDatas
    /\ ser_pc = "value"
    /\ ser_json = <<>>
    /\ ser_parsed = [ok |-> FALSE, value |-> NoTokenData]

Serialize ==
    /\ ser_pc = "value"
    /\ ser_json' = to_string(ser_token)
    /\ ser_pc' = "serialized"
    /\ UNCHANGED <<ser_token, ser_parsed, non_serde_vars>>

Deserialize ==
    /\ ser_pc = "serialized"
    /\ ser_parsed' = from_str(ser_json)
    /\ ser_pc' = "deserialized"
    /\ UNCHANGED <<ser_token, ser_json, non_serde_vars>>

SerdeNext ==
    \/ Serialize
    \/ Deserialize

SpecSerde == SerdeInit /\ [][SerdeNext]_vars

(***************************************************************************)
(* The specification of an abandoned flow: start_oauth and complete_oauth  *)
(* run beside one refresh_access_token call, expiry checks at an advancing *)
(* clock, and deep links that reach the running instance.                  *)
(***************************************************************************)
\* the commands on the session store that run beside the other handlers
AbandonedCalls == 1 .. (MaxCalls - 1)
\* the token response that answers the refresh
RefreshResponse ==
    [refresh_token |-> None, has_expires_in |-> TRUE, expires_in |-> 3600,
     token_type |-> "bearer"]
\* the argv of a second process that was launched with the callback URL
RelaunchArgv ==
    << <<"/Applications/OwnYou.app/Contents/MacOS/ownyou">>, CallbackUrl >>

AbandonedInit ==
    /\ SessionInit
    /\ ExpiryIdle
    /\ TokenIdle
    /\ UrlIdle
    /\ SerdeIdle
    /\ dl_app \in Apps
    /\ dl_pc = "idle"
    /\ dl_argv = <<>>
    /\ dl_i = 0
    /\ dl_window = TRUE
    /\ dl_event_payload = <<>>
    /\ dl_log = <<>>

AbandonedStart ==
    \E c \in AbandonedCalls, p \in Providers, ok \in BOOLEAN :
        StartOAuth(c, p, ok)
AbandonedValidate ==
    \E c \in AbandonedCalls, p \in Providers, ok \in BOOLEAN,
       r \in ReceivedStates :
        CompleteValidate(c, p, ok, r)
RefreshBegin == tok_calls = 0 /\ BeginCall("refresh_token", 1)
RefreshFails == RequestFails("NetworkError")
RefreshResponds == TokenResponse(RefreshResponse, now_ms)
RelaunchWithUrl == SecondInstance(RelaunchArgv)

AbandonedNext ==
    \/ AbandonedStart
    \/ StoreCsrf
    \/ Return
    \/ AbandonedValidate
    \/ Take
    \/ Exchange
    \/ RefreshBegin
    \/ SendRequest
    \/ RefreshFails
    \/ RefreshResponds
    \/ CheckTokenExpiration
    \/ ClockTick
    \/ RelaunchWithUrl
    \/ Loop
    \/ FocusWindow
    \/ Notify
    \/ Republish

SpecAbandoned == AbandonedInit /\ [][AbandonedNext]_vars

(***************************************************************************)
(* Properties of the session store, checked under Spec.                    *)
(***************************************************************************)
Completes == {c \in Calls : call[c].kind = "complete"}
Sent(c) == \E r \in requests : r.by = c

\* C1: a complete(P) that supplies a state different from the one most
\* recently returned by start(P) fails with CsrfMismatch, and one that
\* supplies that very state does not fail with CsrfMismatch.
C1_StaleStateIsCsrfMismatch ==
    \A c \in Completes :
        (call[c].received_state # None /\ call[c].returned_at_entry # None) =>
            IF call[c].received_state # call[c].returned_at_entry
            THEN call[c].result = "CsrfMismatch"
            ELSE call[c].result # "CsrfMismatch"

\* C2: a complete(P) that begins after a complete(P) returned Ok or
\* CsrfMismatch, with no start(P) since, fails with MissingSession.
C2_SecondCompleteMissingSession ==
    \A c \in Completes :
        ( /\ call[c].prior \in {"Ok", "CsrfMismatch"}
          /\ ~call[c].overlap
          /\ call[c].redirect_ok
          /\ call[c].pc \in {"exchange", "done"} ) =>
            call[c].result = "MissingSession"

\* C3: once a complete(P) has returned CsrfMismatch, and until the next
\* start(P) stores, the CSRF slot of P is empty.
C3_MismatchClearsState ==
    \A p \in Providers :
        ended[p] = "CsrfMismatch" => csrf_state[p] = None

\* C4: start is last-writer-wins. While no complete(P) has changed P's slots
\* since start(P) last returned, and no start(P) is storing, the slots hold the
\* verifier and state of the latest start; after two such starts a
\* complete(P) carrying the state of the first fails with CsrfMismatch.
C4_LastWriterWins ==
    /\ \A p \in Providers :
        (Len(chain[p]) >= 1 /\ verifier_lock[p] = 0) =>
            /\ pkce_verifier_slot[p] = chain[p][Len(chain[p])]
            /\ csrf_state[p] = chain[p][Len(chain[p])]
    /\ \A c \in Completes :
        ( /\ Len(call[c].chain_at_entry) = 2
          /\ call[c].received_state = call[c].chain_at_entry[1] ) =>
            call[c].result = "CsrfMismatch"

C4_OverwrittenStateRejected ==
    \E c \in Completes :
        /\ Len(call[c].chain_at_entry) = 2
        /\ call[c].received_state = call[c].chain_at_entry[1]
        /\ call[c].expected_state = call[c].chain_at_entry[2]
        /\ call[c].result = "CsrfMismatch"

\* C5: no verifier goes into two token requests, and a verifier that went
\* into a request is no longer in its slot.
C5_VerifierSingleUse ==
    /\ \A r1, r2 \in requests : r1.verifier = r2.verifier => r1 = r2
    /\ \A r \in requests :
        /\ r.verifier # None
        /\ pkce_verifier_slot[r.provider] # r.verifier

C5_SecondTakeFindsNothing ==
    \E r \in requests : \E c \in Completes :
        /\ c # r.by
        /\ call[c].provider = r.provider
        /\ call[c].slot_at_entry = r.verifier
        /\ call[c].result = "MissingSession"

\* C6: a complete(P) that read a stored state and took a verifier took the
\* verifier of the session whose state it read.
C6_ValidatedSessionIsConsumedSession ==
    \A c \in Completes :
        (call[c].expected_state # None /\ call[c].pkce_verifier # None) =>
            call[c].pkce_verifier = call[c].expected_state

\* C7: a complete(P) without a state never fails with CsrfMismatch; with a
\* well-formed redirect URI it goes on to take the verifier, and if there is
\* one it sends the token request with it.
C7_NoStateSkipsCheck ==
    \A c \in Completes :
        call[c].received_state = None =>
            /\ call[c].result # "CsrfMismatch"
            /\ call[c].redirect_ok =>
                 \/ call[c].pc = "take"
                 \/ /\ call[c].pc = "exchange"
                    /\ Sent(c)
                 \/ /\ call[c].pc = "done"
                    /\ call[c].result = "MissingSession"
                    /\ ~Sent(c)
                 \/ /\ call[c].pc = "done"
                    /\ call[c].result \in ExchangeOutcomes
                    /\ Sent(c)

C7_ExchangeDespiteStoredState ==
    \E c \in Completes :
        /\ call[c].received_state = None
        /\ call[c].expected_state # None
        /\ call[c].pc = "exchange"
        /\ Sent(c)

\* C8: a step of a command on provider P changes no slot and no lock of
\* another provider, what a command reads comes from the slots of its own
\* provider, a lock of Q is only ever held by a command on Q, and a command
\* whose next step needs locks of Q that are free can take that step.
Moved(c) == call'[c].pc # call[c].pc
C8_Frame ==
    /\ \A q \in Providers :
        ( \/ pkce_verifier_slot'[q] # pkce_verifier_slot[q]
          \/ csrf_state'[q] # csrf_state[q]
          \/ verifier_lock'[q] # verifier_lock[q]
          \/ csrf_lock'[q] # csrf_lock[q] ) =>
            \E c \in Calls : Moved(c) /\ call'[c].provider = q
    /\ \A c \in Calls :
        (Moved(c) /\ call'[c].kind = "complete") =>
            /\ call[c].pc = "idle" =>
                 call'[c].expected_state = csrf_state[call'[c].provider]
            /\ (call[c].pc = "take" /\ call'[c].pc = "exchange") =>
                 call'[c].pkce_verifier = pkce_verifier_slot[call[c].provider]
C8_LocksOfOwnProvider ==
    /\ \A q \in Providers :
        /\ verifier_lock[q] # 0 => call[verifier_lock[q]].provider = q
        /\ csrf_lock[q] # 0 => call[csrf_lock[q]].provider = q
    /\ \A c \in Calls :
        /\ \A q \in Providers :
              (NextToBegin(c) /\ verifier_lock[q] = 0)
                  => ENABLED StartOAuth(c, q, TRUE)
        /\ (call[c].pc = "store_csrf" /\ csrf_lock[call[c].provider] = 0)
              => ENABLED StartStoreCsrf(c)
        /\ (call[c].pc = "take" /\ verifier_lock[call[c].provider] = 0)
              => ENABLED CompleteTake(c)
        /\ (call[c].pc = "exchange" /\ csrf_lock[call[c].provider] = 0)
              => ENABLED CompleteExchange(c, "Ok")
C8_ProvidersIndependent == [][C8_Frame]_vars /\ []C8_LocksOfOwnProvider

C8_BothProvidersBusy ==
    \E p, q \in Providers :
        /\ p # q
        /\ verifier_lock[p] # 0
        /\ \E c \in Completes :
            /\ c > verifier_lock[p]
            /\ call[c].provider = q
            /\ call[c].pc = "exchange"

\* C9 as stated: a complete(P) that begins when P has no stored verifier,
\* with no start(P) storing during the call and a well-formed redirect URI,
\* fails with MissingSession and sends no request.
C9_NoSessionIsMissingSession ==
    \A c \in Completes :
        ( /\ call[c].pc = "done"
          /\ call[c].slot_at_entry = None
          /\ ~call[c].overlap
          /\ call[c].redirect_ok ) =>
            /\ call[c].result = "MissingSession"
            /\ ~Sent(c)

\* C9 amended: such a complete(P) sends no request and fails: with
\* CsrfMismatch when a state is still stored for P and the supplied state
\* differs from it, otherwise with ConfigurationError when the redirect URI
\* is malformed, otherwise with MissingSession.
C9_NoSessionNoRequest ==
    \A c \in Completes :
        (call[c].slot_at_entry = None /\ ~call[c].overlap) =>
            /\ ~Sent(c)
            /\ call[c].pc # "exchange"
            /\ call[c].pc = "done" =>
                 call[c].result =
                    IF /\ call[c].received_state # None
                       /\ call[c].expected_state # None
                       /\ call[c].received_state # call[c].expected_state
                    THEN "CsrfMismatch"
                    ELSE IF ~call[c].redirect_ok
                    THEN "ConfigurationError"
                    ELSE "MissingSession"

C9_ConsumedSessionMissing ==
    \E c \in Completes :
        /\ call[c].slot_at_entry = None
        /\ ~call[c].overlap
        /\ call[c].received_state # None
        /\ call[c].received_state = call[c].expected_state
        /\ call[c].result = "MissingSession"

(***************************************************************************)
(* Further properties of the session store, checked under Spec.            *)
(***************************************************************************)
FailureKinds == {"ConfigurationError", "CsrfMismatch", "MissingSession",
                 "NetworkError", "ProviderError"}

\* C16: a start(P) given a malformed redirect URI returns ConfigurationError
\* in its first step, has drawn no verifier and no state (so there is no URL
\* to return), and leaves the slots of every provider, and the state last
\* returned, as they were.
C16_Step ==
    \A c \in Calls :
        ( /\ call[c].pc = "idle"
          /\ call'[c].kind = "start"
          /\ ~call'[c].redirect_ok ) =>
            /\ call'[c].pc = "done"
            /\ call'[c].result = "ConfigurationError"
            /\ call'[c].pkce_verifier = None
            /\ call'[c].csrf_token = None
            /\ pkce_verifier_slot' = pkce_verifier_slot
            /\ csrf_state' = csrf_state
            /\ last_returned' = last_returned
C16_MalformedRedirectLeavesSession == [][C16_Step]_vars

C16_FailedStartBesideSession ==
    \E c, d \in Calls :
        /\ d < c
        /\ call[d].kind = "start" /\ call[d].result = "Ok"
        /\ call[c].kind = "start" /\ ~call[c].redirect_ok
        /\ call[c].provider = call[d].provider
        /\ call[c].result = "ConfigurationError"
        /\ pkce_verifier_slot[call[c].provider] = call[d].pkce_verifier
        /\ csrf_state[call[c].provider] = call[d].csrf_token

\* C18: a command that has returned has an Ok or one of the five failures as
\* its result and holds no session lock; with every command returned all
\* locks are free, and the next start or complete on any provider can run.
C18_FailuresReturnedLocksFree ==
    /\ \A c \in Calls :
        call[c].pc = "done" =>
            /\ call[c].result \in FailureKinds \cup {"Ok"}
            /\ \A p \in Providers : verifier_lock[p] # c /\ csrf_lock[p] # c
    /\ (\A d \in Calls : call[d].pc \in {"idle", "done"}) =>
            /\ \A p \in Providers : verifier_lock[p] = 0 /\ csrf_lock[p] = 0
            /\ \A c \in Calls : \A p \in Providers :
                 NextToBegin(c) =>
                    /\ ENABLED StartOAuth(c, p, TRUE)
                    /\ ENABLED CompleteValidate(c, p, TRUE, None)

C18_SuccessAfterFailure ==
    \E c, d \in Calls :
        /\ c < d
        /\ call[c].provider = call[d].provider
        /\ call[c].pc = "done" /\ call[c].result = "MissingSession"
        /\ call[d].kind = "start" /\ call[d].result = "Ok"


(***************************************************************************)
(* Properties of concurrent commands on the session store, checked under   *)
(* Spec.                                                                   *)
(***************************************************************************)
ExchangeFailures == {"NetworkError", "ProviderError"}
StartExecuting(p) ==
    \E c \in Calls : /\ call[c].kind = "start"
                     /\ call[c].provider = p
                     /\ call[c].pc \notin {"idle", "done"}

\* C26: whenever a provider has a stored verifier and no start for it is
\* executing, its stored state is the one generated by the start that
\* generated that verifier.
C26_VerifierHasItsState ==
    \A p \in Providers :
        (pkce_verifier_slot[p] # None /\ ~StartExecuting(p)) =>
            csrf_state[p] = pkce_verifier_slot[p]

\* C27: a complete that failed with CsrfMismatch has returned and has sent
\* no request to the token endpoint.
C27_MismatchSendsNothing ==
    \A c \in Calls :
        call[c].result = "CsrfMismatch" =>
            /\ call[c].pc = "done"
            /\ \A r \in requests : r.by # c
C27_MismatchBesideStoredVerifier ==
    \E c \in Calls :
        /\ call[c].result = "CsrfMismatch"
        /\ call[c].received_state = Forged
        /\ pkce_verifier_slot[call[c].provider] # None
        /\ requests = {}

\* C28: a failed token exchange neither puts the verifier back nor clears
\* the stored state, and a complete that carries the same, still stored,
\* state after a complete whose exchange failed, with no start storing a
\* session meanwhile, sends no request and fails with MissingSession.
C28_FailureStep ==
    \A c \in Calls :
        ( /\ call[c].pc = "exchange"
          /\ call'[c].pc = "done"
          /\ call'[c].result \in ExchangeFailures ) =>
            /\ pkce_verifier_slot' = pkce_verifier_slot
            /\ csrf_state' = csrf_state
C28_Retry ==
    \A e, c \in Calls :
        ( /\ e < c
          /\ call[e].kind = "complete" /\ call[c].kind = "complete"
          /\ call[e].provider = call[c].provider
          /\ call[e].result \in ExchangeFailures
          /\ call[e].received_state # None
          /\ call[e].expected_state = call[e].received_state
          /\ call[c].received_state = call[e].received_state
          /\ call[c].expected_state = call[c].received_state
          /\ call[c].redirect_ok
          /\ ~call[e].overlap /\ ~call[c].overlap ) =>
            /\ call[c].pc \in {"take", "done"}
            /\ call[c].pc = "done" => call[c].result = "MissingSession"
            /\ \A r \in requests : r.by # c
C28_FailedExchangeIsFinal == [][C28_FailureStep]_vars /\ []C28_Retry
C28_RetryWithSameState ==
    \E e, c \in Calls :
        /\ e < c
        /\ call[e].kind = "complete" /\ call[c].kind = "complete"
        /\ call[e].provider = call[c].provider
        /\ call[e].result = "NetworkError"
        /\ call[e].received_state # None
        /\ call[c].received_state = call[e].received_state
        /\ call[c].expected_state = call[c].received_state
        /\ call[c].result = "MissingSession"
        /\ csrf_state[call[c].provider] = call[c].received_state

\* C30: a complete that is awaiting its token request holds no session
\* lock, and when it is the only command in flight a start and a complete
\* for the same provider can begin.
C30_NoLockAcrossExchange ==
    \A c \in Calls :
        call[c].pc = "exchange" =>
            /\ \A p \in Providers : verifier_lock[p] # c /\ csrf_lock[p] # c
            /\ (\A d \in Calls \ {c} : call[d].pc \in {"idle", "done"}) =>
                   \A d \in Calls :
                       NextToBegin(d) =>
                           /\ ENABLED StartOAuth(d, call[c].provider, TRUE)
                           /\ ENABLED CompleteValidate(d, call[c].provider,
                                                       TRUE, None)
C30_StartReturnsDuringExchange ==
    \E c, d \in Calls :
        /\ c < d
        /\ call[c].pc = "exchange"
        /\ call[d].kind = "start"
        /\ call[d].provider = call[c].provider
        /\ call[d].pc = "done"
        /\ call[d].result = "Ok"
        /\ csrf_state[call[c].provider] = call[d].csrf_token

\* start s stored the session of its provider, complete d then failed on a
\* malformed redirect URI, and complete c followed with a valid redirect
\* URI and the state s returned; no other command ran on the provider
\* since s began
FailedThenRetry(s, d, c) ==
    /\ s < d /\ d < c
    /\ call[s].kind = "start" /\ call[s].result = "Ok"
    /\ call[d].kind = "complete" /\ call[d].provider = call[s].provider
    /\ ~call[d].redirect_ok
    /\ call[d].result = "ConfigurationError"
    /\ call[d].returned_at_entry = call[s].csrf_token
    /\ call[c].kind = "complete" /\ call[c].provider = call[s].provider
    /\ call[c].redirect_ok
    /\ call[c].received_state = call[s].csrf_token
    /\ call[c].returned_at_entry = call[s].csrf_token
    /\ \A e \in Calls \ {s, d, c} :
           (call[e].pc # "idle" /\ call[e].provider = call[s].provider) =>
               e < s /\ call[e].pc = "done" /\ ~call[e].overlap

\* C31 as stated: every complete given a malformed redirect URI fails with
\* the configuration error.
C31_MalformedRedirectIsConfigurationError ==
    \A c \in Calls :
        ( /\ call[c].kind = "complete"
          /\ ~call[c].redirect_ok
          /\ call[c].pc = "done" ) =>
            call[c].result = "ConfigurationError"

\* C31: a complete given a malformed redirect URI ends in its first step,
\* with the CSRF mismatch error when a state is stored for the provider and
\* the supplied state differs from it and with the configuration error
\* otherwise; it takes no verifier, sends no request and leaves the verifier
\* and state of every provider as they were.  A following complete with a
\* valid redirect URI and the stored state takes the stored verifier and
\* sends its token request.
C31_Step ==
    \A c \in Calls :
        ( /\ Moved(c)
          /\ call'[c].kind = "complete"
          /\ ~call'[c].redirect_ok ) =>
            /\ call[c].pc = "idle"
            /\ call'[c].pc = "done"
            /\ call'[c].result =
                   IF /\ call'[c].received_state # None
                      /\ csrf_state[call'[c].provider] # None
                      /\ call'[c].received_state
                             # csrf_state[call'[c].provider]
                   THEN "CsrfMismatch"
                   ELSE "ConfigurationError"
            /\ call'[c].pkce_verifier = None
            /\ pkce_verifier_slot' = pkce_verifier_slot
            /\ csrf_state' = csrf_state
            /\ requests' = requests
C31_Retry ==
    \A s, d, c \in Calls :
        FailedThenRetry(s, d, c) =>
            /\ call[c].result \in {"pending"} \cup ExchangeOutcomes
            /\ call[c].pc \in {"exchange", "done"} =>
                   /\ call[c].pkce_verifier = call[s].pkce_verifier
                   /\ [by |-> c, provider |-> call[c].provider,
                       verifier |-> call[s].pkce_verifier] \in requests
C31_MalformedRedirectLeavesSession == [][C31_Step]_vars /\ []C31_Retry
C31_RetryReachedExchange ==
    \E s, d, c \in Calls :
        /\ FailedThenRetry(s, d, c)
        /\ call[d].slot_at_entry = call[s].pkce_verifier
        /\ call[d].expected_state = call[s].csrf_token
        /\ call[c].pc = "exchange"
        /\ call[c].pkce_verifier = call[s].pkce_verifier
        /\ call[c].pkce_verifier # None

(***************************************************************************)
(* Properties of commands that run to their end, checked under SpecFair.   *)
(***************************************************************************)
InFlight(c) == call[c].pc \notin {"idle", "done"}
\* the step a command in flight takes next
StepOf(c) ==
    \/ StartStoreCsrf(c)
    \/ StartReturn(c)
    \/ CompleteTake(c)
    \/ \E o \in ExchangeOutcomes : CompleteExchange(c, o)
\* start d returned the state that complete c carries, c began after d
\* returned, and every other command for their provider ended before d
\* began
HappyPair(d, c) ==
    /\ d < c
    /\ call[d].kind = "start" /\ call[d].result = "Ok"
    /\ call[c].kind = "complete"
    /\ call[c].provider = call[d].provider
    /\ call[c].redirect_ok
    /\ call[c].received_state = call[d].csrf_token
    /\ call[c].returned_at_entry = call[d].csrf_token
    /\ \A e \in Calls \ {d, c} :
           (call[e].pc # "idle" /\ call[e].provider = call[c].provider) =>
               /\ e < d
               /\ call[e].pc = "done"
               /\ ~call[e].overlap

\* The session half of the happy path (C25): in a start followed by a
\* complete that carries the state start returned, with no other command
\* for the provider in between, the complete sends its one request with the
\* verifier that start stored, it returns, with Ok unless the exchange
\* failed, and after it returned Ok the provider's verifier slot and state
\* slot are empty.
C25_Safe ==
    \A d, c \in Calls :
        HappyPair(d, c) =>
            /\ call[c].result \in {"pending", "Ok"} \cup ExchangeFailures
            /\ call[c].pc \in {"exchange", "done"} =>
                   /\ [by |-> c, provider |-> call[c].provider,
                       verifier |-> call[d].pkce_verifier] \in requests
                   /\ \A r \in requests :
                          r.by = c => r.verifier = call[d].pkce_verifier
            /\ call[c].result = "Ok" =>
                   /\ pkce_verifier_slot[call[c].provider] = None
                   /\ csrf_state[call[c].provider] = None
C25_Live ==
    \A d, c \in Calls :
        (HappyPair(d, c) /\ InFlight(c)) ~> (call[c].pc = "done")
C25_SessionHalf == []C25_Safe /\ C25_Live
C25_FlowCompleted ==
    \E d, c \in Calls :
        /\ HappyPair(d, c)
        /\ call[c].result = "Ok"
        /\ pkce_verifier_slot[call[c].provider] = None
        /\ csrf_state[call[c].provider] = None
        /\ \E r \in requests : r.by = c /\ r.verifier = call[d].pkce_verifier

\* C29: a session lock is held only by a start, which takes the verifier
\* lock of its provider and then the state lock of the same provider; a
\* complete holds no lock from one of its steps to the next; a command in
\* flight can take its next step or waits for a lock whose holder can; and
\* every lock that is held is released.
C29_LockOrder ==
    \A p \in Providers :
        /\ verifier_lock[p] # 0 =>
               /\ call[verifier_lock[p]].kind = "start"
               /\ call[verifier_lock[p]].provider = p
               /\ call[verifier_lock[p]].pc \in {"store_csrf", "return_url"}
        /\ csrf_lock[p] # 0 =>
               /\ verifier_lock[p] = csrf_lock[p]
               /\ call[csrf_lock[p]].pc = "return_url"
C29_Progress ==
    \A c \in Calls :
        InFlight(c) =>
            \/ ENABLED StepOf(c)
            \/ \E d \in Calls \ {c} :
                   /\ \/ verifier_lock[call[c].provider] = d
                      \/ csrf_lock[call[c].provider] = d
                   /\ ENABLED StepOf(d)
C29_Released ==
    \A c \in Calls : \A p \in Providers :
        /\ (verifier_lock[p] = c) ~> (verifier_lock[p] # c)
        /\ (csrf_lock[p] = c) ~> (csrf_lock[p] # c)
C29_NoDeadlock == []C29_LockOrder /\ []C29_Progress /\ C29_Released
C29_CompleteWaitsForStart ==
    \E c, d \in Calls :
        /\ call[c].kind = "complete"
        /\ call[c].pc = "take"
        /\ call[d].kind = "start"
        /\ call[d].provider = call[c].provider
        /\ verifier_lock[call[c].provider] = d
        /\ ~ENABLED CompleteTake(c)
        /\ ENABLED StepOf(d)

(***************************************************************************)
(* Property of an abandoned flow, checked under SpecAbandoned.             *)
(***************************************************************************)
\* start d stored the newest session of its provider and no command of the
\* provider ran since d began
StoredAndLeft(d) ==
    /\ call[d].kind = "start" /\ call[d].result = "Ok"
    /\ \A e \in Calls \ {d} :
           (call[e].pc # "idle" /\ call[e].provider = call[d].provider) =>
               e < d /\ call[e].pc = "done" /\ ~call[e].overlap
OtherHandlerStepped ==
    \/ expiry_vars' # expiry_vars
    \/ token_vars' # token_vars
    \/ deeplink_vars' # deeplink_vars

\* C24: the stored verifier and state of a provider change only in a step
\* of a start or complete on that provider; a step of a refresh, of an
\* expiry check, of a deep-link delivery or of the clock leaves them as they
\* are; and the session a start stored is still there, unexpired, as long as
\* no start or complete on its provider has run since.
C24_Step ==
    /\ \A p \in Providers :
           ( \/ pkce_verifier_slot'[p] # pkce_verifier_slot[p]
             \/ csrf_state'[p] # csrf_state[p] ) =>
               \E c \in Calls :
                   /\ Moved(c)
                   /\ call'[c].provider = p
                   /\ call'[c].kind \in {"start", "complete"}
    /\ OtherHandlerStepped =>
           /\ pkce_verifier_slot' = pkce_verifier_slot
           /\ csrf_state' = csrf_state
C24_Kept ==
    \A d \in Calls :
        StoredAndLeft(d) =>
            /\ pkce_verifier_slot[call[d].provider] = call[d].pkce_verifier
            /\ csrf_state[call[d].provider] = call[d].csrf_token
C24_AbandonedFlowStaysPending == [][C24_Step]_vars /\ []C24_Kept
C24_SessionOutlastsOtherHandlers ==
    \E d \in Calls :
        /\ StoredAndLeft(d)
        /\ pkce_verifier_slot[call[d].provider] = call[d].pkce_verifier
        /\ csrf_state[call[d].provider] = call[d].csrf_token
        /\ now_ms = MaxClockMinutes * MinuteMs
        /\ expiry_checked
        /\ tok_op = "refresh_token" /\ tok_pc = "done"
        /\ tok_result.status = "Ok"
        /\ dl_pc = "done"
        /\ Len(dl_log) > 0

(***************************************************************************)
(* Property of the expiry check, checked under SpecExpiry.                 *)
(***************************************************************************)
\* C10: is_expired is true exactly when expires_at <= now_ms + 300000; a
\* token expiring exactly five minutes from now is expired, one expiring six
\* minutes from now is not.
C10_ExpiredIffWithinMargin ==
    expiry_checked =>
        /\ expired_result <=> (token_expires_at <= now_ms + 300000)
        /\ token_expires_at = now_ms + 300000 => expired_result
        /\ token_expires_at = now_ms + 360000 => ~expired_result

C10_BoundaryReportedExpired ==
    /\ expiry_checked
    /\ now_ms > 0
    /\ token_expires_at = now_ms + 300000
    /\ expired_result

(***************************************************************************)
(* Properties of the token client, checked under SpecToken.                *)
(***************************************************************************)
TokenCallDone == tok_pc = "done" /\ tok_op \in {"exchange_code", "refresh_token"}

\* C11: a refresh_token(old) call that returns a TokenData returns one whose
\* refresh_token is old when the provider's response has no refresh token,
\* and is the provider's refresh token otherwise.
C11_RefreshKeepsOrRotates ==
    ( /\ tok_op = "refresh_token"
      /\ tok_pc = "done"
      /\ tok_result.status = "Ok" ) =>
        tok_result.refresh_token =
            IF tok_response.refresh_token = None
            THEN tok_old_refresh
            ELSE tok_response.refresh_token
C11_OmittedRefreshTokenCarried ==
    /\ tok_op = "refresh_token"
    /\ tok_pc = "done"
    /\ tok_result.status = "Ok"
    /\ tok_response.refresh_token = None
    /\ tok_old_refresh = 2
    /\ tok_result.refresh_token = 2

\* C12: an exchange or refresh whose token response was normalized at clock
\* reading now returns a TokenData with expires_at = now + 1000 * seconds,
\* where seconds is the response's expires_in, or 3600 when it has none.
C12_ExpiresAtIsNowPlusExpiresIn ==
    ( /\ TokenCallDone
      /\ tok_response # NoResponse
      /\ tok_result.status # "NoRefreshToken" ) =>
        /\ tok_result.status = "Ok"
        /\ (tok_result.expires_at - tok_now) % 1000 = 0
        /\ (tok_result.expires_at - tok_now) \div 1000 =
               IF tok_response.has_expires_in
               THEN tok_response.expires_in
               ELSE 3600

\* C25: on the happy path the provider answers the token request of
\* complete with a valid token response, and the exchange then returns a
\* TokenData to complete, which returns it.
C25_ValidResponseReturnsTokenData ==
    ( /\ tok_app = "consumer"
      /\ tok_op = "exchange_code"
      /\ tok_pc = "done"
      /\ tok_response # NoResponse ) =>
        tok_result.status = "Ok"

\* C32: an exchange whose token response has no refresh token returns a
\* TokenData whose refresh_token is absent; the missing refresh token is no
\* error.  (Responses whose expires_in the i64 arithmetic cannot hold are
\* left to C12.)
C32_ExchangeWithoutRefreshTokenSucceeds ==
    ( /\ tok_op = "exchange_code"
      /\ tok_pc = "done"
      /\ tok_response # NoResponse
      /\ tok_response.refresh_token = None
      /\ ~expires_at_overflows(tok_response, tok_now) ) =>
        /\ tok_result.status = "Ok"
        /\ tok_result.refresh_token = None

\* C34: the expires_at of every TokenData that an exchange or refresh
\* returns is not earlier than the clock reading now at which the response
\* was normalized, whatever expires_in the provider sent.
C34_ExpiresAtNotBeforeNow ==
    ( /\ TokenCallDone
      /\ tok_response # NoResponse
      /\ tok_result.status = "Ok" ) =>
        tok_result.expires_at >= tok_now

\* C35: every TokenData that an exchange or refresh returns has the
\* token_type Bearer, whatever token type the response declares.
C35_TokenTypeIsBearer ==
    (TokenCallDone /\ tok_result.status = "Ok") =>
        tok_result.token_type = "Bearer"
C35_BearerForDeclaredMac ==
    /\ TokenCallDone
    /\ tok_result.status = "Ok"
    /\ tok_response.token_type = "mac"
    /\ tok_result.token_type = "Bearer"

\* C17: a call of exchange_code or refresh_token sends at most one request,
\* and a call that returned a network or provider failure sent exactly one.
C17_NoRetry ==
    /\ tok_sent <= 1
    /\ Len(tok_requests) <= tok_calls
    /\ ( /\ TokenCallDone
         /\ tok_result.status \in RequestFailures ) => tok_sent = 1
C17_FailureReturnedAfterOneRequest ==
    /\ tok_op = "refresh_token"
    /\ tok_pc = "done"
    /\ tok_result.status = "NetworkError"
    /\ tok_sent = 1
    /\ tok_calls = 1
    /\ Len(tok_requests) = 1

\* C19 as stated: every exchange and refresh request goes through the one
\* shared HTTP_CLIENT instance.
C19_TokenRequestsUseSharedClient ==
    \A i \in DOMAIN tok_requests :
        tok_requests[i].op \in {"exchange_code", "refresh_token"} =>
            tok_requests[i].client = "HTTP_CLIENT"
\* C19 amended: every http_request goes through the one shared HTTP_CLIENT
\* instance, and no exchange or refresh request does: those are sent by the
\* oauth2 crate's async_http_client.
C19_OnlyProxyUsesSharedClient ==
    \A i \in DOMAIN tok_requests :
        /\ tok_requests[i].op = "http_request" =>
               tok_requests[i].client = "HTTP_CLIENT"
        /\ tok_requests[i].op \in {"exchange_code", "refresh_token"} =>
               tok_requests[i].client = "async_http_client"
C19_ProxyThenRefresh ==
    /\ Len(tok_requests) = 2
    /\ tok_requests[1].op = "http_request"
    /\ tok_requests[1].client = "HTTP_CLIENT"
    /\ tok_requests[2].op = "refresh_token"
    /\ tok_requests[2].client # "HTTP_CLIENT"

(***************************************************************************)
(* Properties of the authorization URL, checked under SpecUrl.             *)
(***************************************************************************)
\* text contains pattern: the pieces of pattern occur in a row
Contains(text, pattern) ==
    \E i \in 1..(Len(text) - Len(pattern) + 1) :
        SubSeq(text, i, i + Len(pattern) - 1) = pattern
\* where the query of a URL has a code_challenge parameter
ChallengePositions(url) ==
    {i \in 1..(Len(url) - 2) : url[i] = "code_challenge" /\ url[i + 1] = "="}

\* C13: the URL start returns for google contains access_type=offline and
\* prompt=consent, and the URL it returns for microsoft contains neither,
\* whatever client id and scopes the caller passes.
C13_GoogleParamsOnlyForGoogle ==
    url_pc = "done" =>
        /\ url_provider = "google" =>
               /\ Contains(url_returned, <<"access_type", "=", "offline">>)
               /\ Contains(url_returned, <<"prompt", "=", "consent">>)
        /\ url_provider = "microsoft" =>
               /\ ~Contains(url_returned, <<"access_type", "=", "offline">>)
               /\ ~Contains(url_returned, <<"prompt", "=", "consent">>)
C13_MicrosoftWithGoogleLookingScope ==
    /\ url_pc = "done"
    /\ url_app = "consumer"
    /\ url_provider = "microsoft"
    /\ Len(url_scopes_arg) = 2
    /\ url_scopes_arg[2] = <<"access_type", "=", "offline">>
    /\ Contains(url_returned, <<"access_type", "%3D", "offline">>)
    /\ ~Contains(url_returned, <<"access_type", "=", "offline">>)

\* C20: the URL start(P) returns has exactly one code_challenge parameter,
\* with method S256, and its value is the base64url SHA-256 of the verifier
\* that this call stored for P.
C20_ChallengeOfStoredVerifier ==
    url_pc = "done" =>
        /\ Contains(url_returned, <<"code_challenge_method", "=", "S256">>)
        /\ \E i \in ChallengePositions(url_returned) :
               /\ ChallengePositions(url_returned) = {i}
               /\ url_returned[i + 2] =
                      S256(url_stored_verifier[url_provider])
C20_SecondStartNewChallenge ==
    /\ url_pc = "done"
    /\ url_calls = 2
    /\ url_stored_verifier[url_provider] = 2
    /\ Contains(url_returned, <<"code_challenge", "=", S256(2)>>)
    /\ ~Contains(url_returned, <<"code_challenge", "=", S256(1)>>)

\* C22: when the caller passes no scopes the URL start(P) returns has the
\* scope parameter of P's fixed default scopes (offline_access among them
\* for microsoft), and when the caller passes scopes the scope parameter is
\* made of exactly those.
C22_DefaultScopesWhenNonePassed ==
    url_pc = "done" =>
        IF url_scopes_arg = <<>>
        THEN /\ Contains(url_returned,
                   <<"&", "scope", "=">>
                   \o Encoded(JoinScopes(FixedScopes(url_provider))))
             /\ url_provider = "microsoft" =>
                    Contains(url_returned, <<"offline_access">>)
        ELSE SubSeq(url_returned,
                    Len(AuthorizationUrl(url_provider, url_client_id, url_csrf,
                                         url_challenge, <<>>)) + 1,
                    Len(AuthorizationUrl(url_provider, url_client_id, url_csrf,
                                         url_challenge, url_scopes_arg)))
                 = <<"&", "scope", "=">> \o Encoded(JoinScopes(url_scopes_arg))

(***************************************************************************)
(* Properties of deep-link delivery, checked under SpecDeepLink.           *)
(***************************************************************************)
\* the arguments after the program name that are custom-scheme URLs
SchemeArgs == {i \in 2..Len(dl_argv) : dl_argv[i][1] = Scheme}
Emits == {k \in DOMAIN dl_log : dl_log[k].op = "emit"}
WindowRequests == {k \in DOMAIN dl_log : dl_log[k].op # "emit"}
OneUrlRelaunchDone ==
    dl_app = "consumer" /\ dl_pc = "done" /\ Cardinality(SchemeArgs) = 1

RECURSIVE EmittedPayloads(_)
EmittedPayloads(log) ==
    IF Len(log) = 0 THEN <<>>
    ELSE (IF log[1].op = "emit" THEN <<log[1].payload>> ELSE <<>>)
         \o EmittedPayloads(Tail(log))
\* one payload for every argument at positions 2 .. n that begins with the
\* scheme, in argument order
RECURSIVE SchemePayloads(_)
SchemePayloads(n) ==
    IF n < 2 THEN <<>>
    ELSE SchemePayloads(n - 1)
         \o (IF dl_argv[n][1] = Scheme
             THEN <<JsonArray(<<dl_argv[n]>>)>> ELSE <<>>)
RelaunchHandled == dl_app = "consumer" /\ dl_pc = "done"

\* C33 as stated: when the second-instance handler has run, the events it
\* published are those of the arguments after the first that begin with
\* the scheme, one each and in argument order, and in every case focus for
\* the main window was requested.
C33_EventPerSchemeArgumentAndFocus ==
    RelaunchHandled =>
        /\ EmittedPayloads(dl_log) = SchemePayloads(Len(dl_argv))
        /\ \E j \in WindowRequests : dl_log[j].op = "set_focus"
\* C33 amended: at every point of the handler the emits made so far are
\* those of the arguments visited so far that begin with the scheme, one
\* each, in argument order, the first argument never among them; when the
\* handler has run, whatever was emitted and whether or not an emit failed,
\* it has requested focus and then unminimize for the main window after the
\* last emit if a window labelled main exists, and made no window request
\* otherwise.
C33_EventPerSchemeArgumentThenFocusIfWindow ==
    (dl_app = "consumer" /\ dl_pc \in {"loop", "done"}) =>
        /\ EmittedPayloads(dl_log) = SchemePayloads(dl_i - 1)
        /\ \A k \in Emits : dl_log[k].name = "deep-link-received"
        /\ dl_pc = "loop" => WindowRequests = {}
        /\ dl_pc = "done" =>
               /\ dl_i = Len(dl_argv) + 1
               /\ dl_window =>
                      /\ Len(dl_log) = Cardinality(Emits) + 2
                      /\ dl_log[Len(dl_log) - 1].op = "set_focus"
                      /\ dl_log[Len(dl_log)].op = "unminimize"
               /\ ~dl_window => WindowRequests = {}
C33_TwoUrlsAfterSkippedUrl ==
    /\ RelaunchHandled
    /\ dl_window
    /\ dl_argv = <<CallbackUrl, <<Scheme, "settings">>, CallbackUrl>>
    /\ Len(dl_log) = 4
    /\ dl_log[1].payload = JsonArray(<< <<Scheme, "settings">> >>)
    /\ ~dl_log[1].ok
    /\ dl_log[2].payload = JsonArray(<<CallbackUrl>>)
    /\ dl_log[3].op = "set_focus"
C33_NoUrlStillFocus ==
    /\ RelaunchHandled
    /\ dl_window
    /\ SchemeArgs = {}
    /\ Len(dl_argv) > 1
    /\ Len(dl_log) = 2
    /\ dl_log[1].op = "set_focus"

\* C15: on either delivery path the callback URL is published under the
\* name deep-link-received with the raw URL as a single string for payload.
C15_OneEventShapeOnBothPaths ==
    \A k \in Emits :
        /\ dl_log[k].name = "deep-link-received"
        /\ dl_log[k].payload = JsonString(CallbackUrl)

(***************************************************************************)
(* Property of TokenData serialization, checked under SpecSerde.           *)
(***************************************************************************)
\* C23: deserializing the serialization of a TokenData succeeds and gives a
\* TokenData equal to the original in every field.
C23_RoundTrip ==
    ser_pc = "deserialized" =>
        /\ ser_parsed.ok
        /\ ser_parsed.value.access_token = ser_token.access_token
        /\ ser_parsed.value.refresh_token = ser_token.refresh_token
        /\ ser_parsed.value.expires_at = ser_token.expires_at
        /\ ser_parsed.value.scope = ser_token.scope
        /\ ser_parsed.value.token_type = ser_token.token_type
C23_EscapedFieldsAndNoRefreshToken ==
    /\ ser_pc = "deserialized"
    /\ ser_token.access_token = <<Backslash, Quote, ",", "}">>
    /\ ~ser_token.refresh_token.some
    /\ ser_token.expires_at = IMin
    /\ ser_parsed.ok
    /\ ser_parsed.value = ser_token
    /\ Len(ser_json) > 20

=============================================================================
